---- MODULE Spec2Model ----
(***************************************************************************)
(* EchoAgent: the capability registry (tools_agent/toolkit.py,             *)
(* agent_core/tools.py), the remote connection manager                     *)
(* (agent_core/mcp_manager.py), the orchestration loop                     *)
(* (agent_frame.py) and the state manager (agent_core/state_manager.py,    *)
(* agent_core/models.py, utils/conversation_store.py), as state machines.  *)
(*                                                                         *)
(* The specifications share the variables:                                  *)
(*   RegSpec  - registrations and the startup connection phase             *)
(*   FairRegSpec - RegSpec with the event loop's fairness                  *)
(*   Spec     - process_query on an agent whose tools are in place; what   *)
(*              the query yields and what it asks of the state manager is  *)
(*              kept in the log of the query                               *)
(*   FairSpec - Spec with the event loop's fairness                        *)
(*   StoreSpec - the state manager's transcripts, their files, the SQLite  *)
(*              mirror, and a new agent restoring the session              *)
(*   TcSpec   - the Team Context: patches, loads, tool results, and        *)
(*              writers of the shared file                                 *)
(*   ToolMayHangSpec - Spec with fairness of every step but the end of a   *)
(*              tool                                                       *)
(*   ConcSpec - queries of several consumers on one agent                  *)
(*   CallSpec - calls of remote tools on a manager with two connections    *)
(*   MsgSpec  - the transcripts and the message list under the calls of a  *)
(*              query                                                      *)
(*   ChatSpec - agent_chat_loop: construction, queries, shutdown, and what *)
(*              each failure leaves in the logs and on the terminal        *)
(***************************************************************************)
EXTENDS Integers, Sequences, FiniteSets, TLC

VARIABLES
    \* ToolRegistry (tools_agent/toolkit.py)
    name_to_callable,    \* _name_to_callable: name -> implementation
    name_to_model,       \* _name_to_model: name -> argument model or "None"
    schemas,             \* _schemas: list of schemas (by tool name)
    registration_order,  \* _registration_order
    \* AgentToolManager (agent_core/tools.py)
    local_tools,         \* local_tools: name -> tool instance
    tool_prompt_config,  \* tool_prompt_config: list of configs (by tool name)
    reg_result,          \* the last registration call: its name and whether it raised
    n_regs,              \* registration calls made so far
    \* MCPManager (agent_core/mcp_manager.py)
    available_tools,     \* available_tools: list of tool definitions (by name)
    tool_to_session,     \* tool_to_session: name -> session (of server s)
    server_status,       \* server_status: server -> BOOLEAN
    sessions,            \* sessions: list of initialized sessions
    exit_stack,          \* exit_stack: resources entered, in order
    conn_pc,             \* position of connect_to_servers
    conn_idx,            \* index of the task connect_to_servers awaits
    results,             \* results of connect_to_servers
    outcome,             \* what each contacted server did (environment)
    \* EchoAgent.process_query (agent_frame.py)
    pc,                  \* position of process_query
    version,             \* the protocol variant of the running query
    intention_tools,     \* intention_tools of _execute_tool_loop_common
    func_name,           \* func_name of _execute_tool_loop_common
    events,              \* tool events yielded since the last intention resolution
    dispatched,          \* names passed to execute_tool since the last resolution
    last_raw,            \* the raw output of the last intention resolution
    notices,             \* diagnostics yielded by the running query
    trace,               \* log of the running query: user and assistant
                         \* messages added, tool events yielded, saves
    \* AgentStateManager (agent_core/state_manager.py)
    conversations,               \* conversations: roles of the message list
    display_conversations,       \* display_conversations: roles of its entries
    full_context_conversations,  \* full_context_conversations
    tool_conversations,          \* tool_conversations
    tool_execute_conversations,  \* tool_execute_conversations
    conv_files,                  \* the session's conversation files: key -> content
    conv_store,                  \* _conv_store: "sqlite" or "None"
    db_mirror,                   \* the snapshot held by the SQLite mirror
    team_context,                \* team_context: dict
    team_ctx_model,              \* _team_ctx_model: unset, or its model_dump()
    tc_file,                     \* the Team Context file
    tc_file_by,                  \* who wrote the Team Context file last
    n_saves,                     \* save_all_conversations calls made so far
    \* The session around the queries (agent_frame.py, mcp_manager.py)
    tasks,               \* the process_query calls of the agent: where each is
    released,            \* resources released by exit_stack.aclose(), in order
    chat_pc,             \* position of agent_chat_loop
    logged,              \* error records written by the loggers
    surfaced,            \* what agent_chat_loop has printed or raised to its caller
    msg_error,           \* whether the last add_message call raised ValueError
    mcp_result           \* the last execute_mcp_tool call: its inputs, whether it
                         \* raised, the text it returned

regvars == <<name_to_callable, name_to_model, schemas, registration_order,
             local_tools, tool_prompt_config, reg_result, n_regs>>
mcpvars == <<available_tools, tool_to_session, server_status, sessions,
             exit_stack, conn_pc, conn_idx, results, outcome>>
loopvars == <<pc, version, intention_tools, func_name, events, dispatched,
              last_raw, notices, trace>>
storevars == <<conversations, display_conversations, full_context_conversations,
               tool_conversations, tool_execute_conversations, conv_files,
               conv_store, db_mirror, n_saves>>
tcvars == <<team_context, team_ctx_model, tc_file, tc_file_by>>
statevars == <<storevars, tcvars>>
sessionvars == <<tasks, released, chat_pc, surfaced, msg_error, mcp_result>>
lifevars == <<sessionvars, logged>>
vars == <<regvars, mcpvars, loopvars, statevars, lifevars>>

(***************************************************************************)
(* Bounds                                                                  *)
(***************************************************************************)
MaxServers == 2
MaxRegs == 2
MaxTools == 2
MaxTrace == 8
MaxMsgs == 2
MaxSaves == 1
MaxTasks == 2
MaxSteps == 1
MaxParts == 2

Tasks == 1..MaxTasks

Servers == 1..MaxServers

None == "None"

EmptyMap == [x \in {} |-> None]

\* No intention resolution has run yet in the query
NoRaw == [kind |-> "none", tools |-> <<>>]
\* generate_stream_conversation raised: there is no raw output
LlmRaised == [kind |-> "llm_raised", tools |-> <<>>]

\* d[k] = v of a Python dict
Put(d, k, v) == (k :> v) @@ d

RECURSIVE SeqToSet(_)
SeqToSet(s) == IF s = <<>> THEN {} ELSE {Head(s)} \cup SeqToSet(Tail(s))

NoDuplicates(s) == \A i, j \in 1..Len(s) : s[i] = s[j] => i = j

\* The elements of s in the order of their first occurrence
RECURSIVE FirstOccurrences(_)
FirstOccurrences(s) ==
    IF s = <<>> THEN <<>>
    ELSE LET front == FirstOccurrences(SubSeq(s, 1, Len(s) - 1))
             last == s[Len(s)]
         IN  IF last \in SeqToSet(front) THEN front ELSE Append(front, last)

(***************************************************************************)
(* ToolRegistry                                                            *)
(***************************************************************************)
\* The functions a caller may hand to register: decorated with @tool (they
\* carry a schema naming them) or not; with an argument model or without.
ToolFuncs ==
    { [name |-> "CodeRunner", impl |-> "f1", decorated |-> TRUE, model |-> "CodeRunnerArgs"],
      [name |-> "CodeRunner", impl |-> "f2", decorated |-> TRUE, model |-> None],
      [name |-> "search", impl |-> "f3", decorated |-> TRUE, model |-> None],
      [name |-> "plain", impl |-> "f4", decorated |-> FALSE, model |-> None] }

LocalNames == {"CodeRunner", "search"}
LocalInstances == {"i1", "i2"}

has(tool_name) == tool_name \in DOMAIN name_to_callable

\* ToolRegistry.get_all_tool_names: the keys of _name_to_callable, which a
\* dict keeps in the order of their first insertion
get_all_tool_names == FirstOccurrences(registration_order)

\* ToolRegistry.register: the state after registering the decorated tool_func
registerWrites(tool_func) ==
    /\ name_to_callable' = Put(name_to_callable, tool_func.name, tool_func.impl)
    /\ name_to_model' = Put(name_to_model, tool_func.name, tool_func.model)
    /\ schemas' = Append(schemas, tool_func.name)
    /\ registration_order' = Append(registration_order, tool_func.name)

\* ToolRegistry.register raises for this function
registerRaises(tool_func) == ~tool_func.decorated

\* AgentToolManager.register_tool_function(func)
register_tool_function(tool_func) ==
    /\ n_regs < MaxRegs
    /\ conn_pc \in {"idle", "done"}
    /\ n_regs' = n_regs + 1
    /\ IF registerRaises(tool_func)
       THEN /\ reg_result' = [name |-> tool_func.name, raised |-> TRUE]
            /\ UNCHANGED <<name_to_callable, name_to_model, schemas, registration_order>>
       ELSE /\ reg_result' = [name |-> tool_func.name, raised |-> FALSE]
            /\ registerWrites(tool_func)
    /\ UNCHANGED <<local_tools, tool_prompt_config, mcpvars, loopvars, statevars, lifevars>>

\* AgentToolManager.register_local_tool raises for this name
registerLocalRaises(name) == name \in DOMAIN local_tools

\* AgentToolManager.register_local_tool(name, tool_instance, tool_config_for_prompt)
register_local_tool(name, inst) ==
    /\ n_regs < MaxRegs
    /\ conn_pc \in {"idle", "done"}
    /\ n_regs' = n_regs + 1
    /\ IF registerLocalRaises(name)
       THEN /\ reg_result' = [name |-> name, raised |-> TRUE]
            /\ UNCHANGED <<local_tools, tool_prompt_config>>
       ELSE /\ reg_result' = [name |-> name, raised |-> FALSE]
            /\ local_tools' = Put(local_tools, name, inst)
            /\ tool_prompt_config' = Append(tool_prompt_config, name)
    /\ UNCHANGED <<name_to_callable, name_to_model, schemas, registration_order,
                   mcpvars, loopvars, statevars, lifevars>>

(***************************************************************************)
(* MCPManager                                                              *)
(***************************************************************************)
\* What a contacted server may do: fail to spawn (stdio_client), fail when
\* the ClientSession is entered, fail or never answer the initialize
\* handshake, fail the list_tools discovery, or answer it.
FailOutcomes == {"fail_transport", "fail_session", "fail_initialize", "fail_list_tools"}

\* The tools each configured server answers to list_tools, when it answers
ServerTools(s) ==
    CASE s = 1 -> <<"search">>
      [] s = 2 -> <<"fetch", "search">>
      [] OTHER -> <<"CodeRunner">>

\* MCPManager.list_available_tools
mcp_list_available_tools == available_tools

\* The resources connect_to_server has entered on the exit stack when it
\* ends with outcome o
Acquired(s, o) ==
    CASE o = "fail_transport" -> <<>>
      [] o = "fail_session" -> << <<"transport", s>> >>
      [] OTHER -> << <<"transport", s>>, <<"session", s>> >>

\* session.initialize() returned, so line 92 appended the session
Initialized(o) == o \in {"fail_list_tools", "ok"}

\* The registration loop of connect_to_server over the discovered tools
RECURSIVE RegisterDiscovered(_, _, _)
RegisterDiscovered(t2s, tools, s) ==
    IF tools = <<>> THEN t2s
    ELSE RegisterDiscovered(Put(t2s, Head(tools), s), Tail(tools), s)

\* A connect_to_server that reports success once the handshake is done,
\* whatever discovery does
ConnectReturns_before_discovery(o) == Initialized(o)

\* The value connect_to_server returns (and stores in server_status)
ConnectReturns(o) == o = "ok"

\* MCPManager.connect_to_server(server_name, ...), awaited by
\* connect_to_servers as its conn_idx-th task, the server doing o
connect_to_server(s, o) ==
    /\ conn_pc = "awaiting"
    /\ conn_idx = s
    /\ exit_stack' = exit_stack \o Acquired(s, o)
    /\ sessions' = IF Initialized(o) THEN Append(sessions, s) ELSE sessions
    /\ IF o = "ok"
       THEN /\ tool_to_session' = RegisterDiscovered(tool_to_session, ServerTools(s), s)
            /\ available_tools' = available_tools \o ServerTools(s)
       ELSE UNCHANGED <<tool_to_session, available_tools>>
    /\ server_status' = Put(server_status, s, ConnectReturns(o))
    /\ results' = Put(results, s, ConnectReturns(o))
    /\ outcome' = Put(outcome, s, o)
    /\ conn_idx' = s + 1
    /\ UNCHANGED <<conn_pc, regvars, loopvars, statevars, lifevars>>

\* The server never answers the initialize handshake: connect_to_server
\* stays at "await session.initialize()" (no timeout is set)
handshake_hangs(s) ==
    /\ conn_pc = "awaiting"
    /\ conn_idx = s
    /\ exit_stack' = exit_stack \o Acquired(s, "fail_initialize")
    /\ outcome' = Put(outcome, s, "hang")
    /\ conn_pc' = "hung"
    /\ UNCHANGED <<sessions, tool_to_session, available_tools, server_status,
                   results, conn_idx, regvars, loopvars, statevars, lifevars>>

\* MCPManager.connect_to_servers up to its first await: the coroutines are
\* created (none runs yet) and results = {}
connect_to_servers_begin ==
    /\ conn_pc = "idle"
    /\ conn_pc' = "awaiting"
    /\ conn_idx' = 1
    /\ results' = EmptyMap
    /\ UNCHANGED <<available_tools, tool_to_session, server_status, sessions,
                   exit_stack, outcome, regvars, loopvars, statevars, lifevars>>

\* MCPManager.connect_to_servers returns results
connect_to_servers_return ==
    /\ conn_pc = "awaiting"
    /\ conn_idx = MaxServers + 1
    /\ conn_pc' = "done"
    /\ UNCHANGED <<available_tools, tool_to_session, server_status, sessions,
                   exit_stack, conn_idx, results, outcome, regvars, loopvars, statevars, lifevars>>

\* AsyncExitStack.aclose: the exit callbacks run last in, first out
Reverse(seq) == [i \in 1..Len(seq) |-> seq[Len(seq) + 1 - i]]

\* MCPManager.cleanup, called by the finally clause of agent_chat_loop
\* wherever the startup is; aclose runs every exit callback and re-raises
\* what one of them raised, and cleanup's except clause logs it
cleanup(raises) ==
    /\ conn_pc # "closed"
    /\ raises => exit_stack # <<>>
    /\ conn_pc' = "closed"
    /\ released' = Reverse(exit_stack)
    /\ exit_stack' = <<>>
    /\ IF raises
       THEN UNCHANGED <<sessions, available_tools, tool_to_session>>
       ELSE /\ sessions' = <<>>
            /\ available_tools' = <<>>
            /\ tool_to_session' = EmptyMap
    /\ UNCHANGED <<server_status, conn_idx, results, outcome, regvars, loopvars,
                   statevars, tasks, chat_pc, logged, surfaced, msg_error, mcp_result>>

(***************************************************************************)
(* AgentToolManager: lookup                                                *)
(***************************************************************************)
is_mcp_tool(tool_name) == tool_name \in SeqToSet(mcp_list_available_tools)

list_available_tools ==
    get_all_tool_names \o tool_prompt_config \o mcp_list_available_tools

\* A catalogue that lists the local tools before the function tools
get_all_tool_configs_for_prompt_local_first ==
    tool_prompt_config \o schemas \o available_tools

\* AgentToolManager.get_all_tool_configs_for_prompt: the registry's
\* schemas, then the local tools' configurations, then the MCP schemas
get_all_tool_configs_for_prompt ==
    schemas \o tool_prompt_config \o available_tools

\* A name some origin has registered
IsRegistered(tool_name) ==
    \/ has(tool_name)
    \/ tool_name \in DOMAIN local_tools
    \/ is_mcp_tool(tool_name)

(***************************************************************************)
(* TeamContextModel (agent_core/models.py) and the Team Context of the     *)
(* state manager                                                           *)
(***************************************************************************)
\* The declared fields of TeamContextModel (two of the seven, one of each
\* declared type) and the value each accepts besides None
KnownFields == {"team_goal", "objectives"}
FieldValue == [team_goal |-> "g", objectives |-> "[o]"]

\* The key the state manager keeps out of the Team Context
DisallowedKey == "answer"

\* The values a caller, a tool or a file may give a key: a string, a list of
\* strings, a number, null
ValuesOf(k) ==
    IF k = "team_goal" THEN {"g", "<5>", None}
    ELSE IF k = "objectives" THEN {"[o]", None}
    ELSE {"a"}

TcKeys == KnownFields \cup {DisallowedKey}

\* The dicts over TcKeys
Dicts ==
    UNION { {d \in [K -> UNION {ValuesOf(k) : k \in K}] : \A k \in K : d[k] \in ValuesOf(k)}
            : K \in SUBSET TcKeys }

Patches == Dicts

\* d without the key k
Without(d, k) == [x \in DOMAIN d \ {k} |-> d[x]]

\* {**base, **over}
Merged(base, over) == over @@ base

\* TeamContextModel.model_validate(d) succeeds: every declared field given
\* holds None or a value of its type; other keys are allowed (extra="allow")
Validates(d) ==
    \A k \in DOMAIN d \cap KnownFields : d[k] \in {None, FieldValue[k]}

\* model_dump() of the model validated from d: every declared field (None
\* when not given) and the extra keys
model_validate(d) ==
    [k \in DOMAIN d \cup KnownFields |-> IF k \in DOMAIN d THEN d[k] ELSE None]

\* model_dump(exclude_unset=True, exclude_none=True) of the model validated
\* from d
dump_set_not_none(d) ==
    [k \in {x \in DOMAIN d : d[x] # None} |-> d[k]]

\* TeamContextModel.merge_patch, on the model whose model_dump() is dump
merge_patch(dump, patch) ==
    IF Validates(patch)
    THEN Merged(dump, dump_set_not_none(patch))
    ELSE Merged(dump, patch)

NoModel == [set |-> FALSE, data |-> EmptyMap]
ModelOf(d) == [set |-> TRUE, data |-> model_validate(d)]

\* File contents: no file, an empty text, a text that is no JSON, the JSON
\* text of a list, the JSON text of a dict
NoFile == [kind |-> "absent", data |-> EmptyMap]
JsonDict(d) == [kind |-> "dict", data |-> d]

\* A patch that is written without removing the disallowed key
sanitized_patch_keeps_all(patch) == patch

\* update_team_context: the patch without the disallowed key (lines 145-158)
sanitized_patch(patch) ==
    IF DisallowedKey \in DOMAIN patch THEN Without(patch, DisallowedKey) ELSE patch

\* save_team_context: the payload it writes
payload(model, tc) == IF model.set THEN model.data ELSE tc

\* save_team_context: the file after the call; a failing write is logged
\* and leaves the file as it was
save_team_context(model, tc, file, by, ok) ==
    IF ok THEN [file |-> JsonDict(payload(model, tc)), by |-> "agent", err |-> FALSE]
    ELSE [file |-> file, by |-> by, err |-> TRUE]

\* update_team_context(patch) on the state s = [tc, model, file, by]; err
\* tells whether the write of the call raised (it is logged, not raised)
update_team_context(s, patch, ok) ==
    LET sp == sanitized_patch(patch)
        model1 == IF s.model.set THEN s.model
                  ELSE IF Validates(s.tc) THEN ModelOf(s.tc) ELSE NoModel
        merged == merge_patch(model1.data, sp)
        model2 == IF model1.set /\ Validates(merged) THEN ModelOf(merged) ELSE model1
        tc1 == IF model1.set
               THEN (IF Validates(merged) THEN model2.data ELSE merged)
               ELSE Merged(s.tc, sp)
        tc2 == IF DisallowedKey \in DOMAIN tc1 THEN Without(tc1, DisallowedKey) ELSE tc1
        saved == save_team_context(model2, tc2, s.file, s.by, ok)
    IN  [tc |-> tc2, model |-> model2, file |-> saved.file, by |-> saved.by,
         err |-> saved.err]

\* load_team_context on the state s
load_team_context(s, ok) ==
    IF s.file.kind \in {"absent", "empty", "garbage"} THEN s
    ELSE LET is_dict == s.file.kind = "dict"
             loaded == s.file.data
             valid == is_dict /\ Validates(loaded)
             model1 == IF valid THEN ModelOf(loaded) ELSE s.model
             tc1 == IF valid THEN model1.data
                    ELSE IF is_dict THEN loaded ELSE EmptyMap
         IN  IF DisallowedKey \notin DOMAIN tc1
             THEN [tc |-> tc1, model |-> model1, file |-> s.file, by |-> s.by,
                   err |-> FALSE]
             ELSE LET tc2 == Without(tc1, DisallowedKey)
                      model2 == IF model1.set /\ Validates(tc2) THEN ModelOf(tc2)
                                ELSE model1
                      saved == save_team_context(model2, tc2, s.file, s.by, ok)
                  IN  [tc |-> tc2, model |-> model2, file |-> saved.file, by |-> saved.by,
                       err |-> saved.err]

\* What a tool returns, by what _maybe_update_team_context_from_tool_result
\* finds in it: a dict (or, for a text, its JSON) with a dict under
\* "team_context", a small flat dict, or nothing to merge
ToolResultShapes == {"keyed", "flat", "plain"}

\* _maybe_update_team_context_from_tool_result
maybe_update_team_context_from_tool_result(s, shape, found, ok) ==
    IF shape = "plain" \/ found = EmptyMap THEN s
    ELSE update_team_context(s,
            IF DisallowedKey \in DOMAIN found THEN Without(found, DisallowedKey) ELSE found,
            ok)

\* The Team Context state of the state manager
TcState ==
    [tc |-> team_context, model |-> team_ctx_model, file |-> tc_file, by |-> tc_file_by,
     err |-> FALSE]

\* logger.error / logger.exception of a write that raised
PersistenceError == "persistence_error"

Logged(err) == IF err THEN logged \cup {PersistenceError} ELSE logged

SetTcState(s) ==
    /\ team_context' = s.tc
    /\ team_ctx_model' = s.model
    /\ tc_file' = s.file
    /\ tc_file_by' = s.by
    /\ logged' = Logged(s.err)

(***************************************************************************)
(* AgentStateManager: transcripts, conversation files, SQLite mirror       *)
(***************************************************************************)
\* The keys of file_manager.conversation_files that save_all_conversations
\* writes, in the order _save_with_session writes them
ConvKeys == {"conversations", "display", "full", "tools", "tool_execute"}

Roles == {"user", "assistant", "tool", "react"}

\* Path.write_text of a transcript, json.dumps of a message list
Text(t) == [kind |-> "text", data |-> t]
JsonList(l) == [kind |-> "json", data |-> l]
Absent == [kind |-> "absent", data |-> <<>>]

\* files_to_save of _save_with_session
files_to_save ==
    [k \in ConvKeys |->
        CASE k = "conversations" -> JsonList(conversations)
          [] k = "display" -> Text(display_conversations)
          [] k = "full" -> Text(full_context_conversations)
          [] k = "tools" -> JsonList(tool_conversations)
          [] OTHER -> Text(tool_execute_conversations)]

\* An add_message that shows the user every message it appends
add_message_all_visible(role) ==
    /\ msg_error' = (role \notin Roles)
    /\ display_conversations' =
          IF role \in Roles THEN Append(display_conversations, role)
          ELSE display_conversations
    /\ full_context_conversations' =
          IF role \in Roles THEN Append(full_context_conversations, role)
          ELSE full_context_conversations
    /\ tool_execute_conversations' =
          IF role = "user" THEN Append(tool_execute_conversations, role)
          ELSE tool_execute_conversations
    /\ conversations' =
          IF role \in {"user", "assistant"} THEN Append(conversations, role)
          ELSE conversations

\* add_message(role, content): a role it does not support raises ValueError
\* before anything is written
add_message(role) ==
    /\ msg_error' = (role \notin Roles)
    /\ display_conversations' =
          IF role \in {"user", "assistant"} THEN Append(display_conversations, role)
          ELSE display_conversations
    /\ full_context_conversations' =
          IF role \in Roles THEN Append(full_context_conversations, role)
          ELSE full_context_conversations
    /\ tool_execute_conversations' =
          IF role = "user" THEN Append(tool_execute_conversations, role)
          ELSE tool_execute_conversations
    /\ conversations' =
          IF role \in {"user", "assistant"} THEN Append(conversations, role)
          ELSE conversations

\* How _agent_reset ends: it builds both prompts, or get_system_prompt
\* raises (nothing is touched), or get_judge_prompt raises after
\* init_conversations; its except clause logs either
AgentResetOutcomes == {"ok", "raised_before_init", "raised_after_init"}

\* init_conversations(system_prompt) with a system prompt
init_conversations == <<"system">>

\* _agent_reset: the message list becomes the new system prompt followed by
\* the judge prompt, a user message built from the full transcript
agent_reset(how) ==
    /\ conversations' =
          CASE how = "ok" -> Append(init_conversations, "judge")
            [] how = "raised_after_init" -> init_conversations
            [] OTHER -> conversations
    /\ UNCHANGED <<display_conversations, full_context_conversations, tool_conversations,
                   tool_execute_conversations, conv_files, conv_store, db_mirror, n_saves,
                   tcvars, regvars, mcpvars, loopvars, lifevars>>

\* What _get_tool_intention_common leaves in the state manager: the tool
\* conversation is rebuilt, the raw decision is appended to the
\* tool-execution transcript (not when the tool model raised)
intention_resolution(ok) ==
    /\ tool_conversations' = IF ok THEN <<"user", "assistant">> ELSE <<"user">>
    /\ tool_execute_conversations' =
          IF ok THEN Append(tool_execute_conversations, "assistant")
          ELSE tool_execute_conversations
    /\ UNCHANGED <<conversations, display_conversations, full_context_conversations,
                   conv_files, conv_store, db_mirror, n_saves, tcvars, regvars, mcpvars,
                   loopvars, lifevars>>

\* ConversationStore.save_snapshot: upsert_session, replace_messages and
\* upsert_text_snapshot are three transactions; a failure of one is logged
\* and keeps what the earlier ones committed. The mirror is kept by the
\* save_all_conversations call (its number) that wrote its rows; 0: no row.
NoMirror == [messages |-> 0, texts |-> 0]

DbOutcomes == {"ok", "fail_messages", "fail_texts"}

save_snapshot(how) ==
    CASE how = "ok" -> [messages |-> n_saves + 1, texts |-> n_saves + 1]
      [] how = "fail_texts" -> [messages |-> n_saves + 1, texts |-> db_mirror.texts]
      [] OTHER -> db_mirror

\* _save_to_db_if_enabled
save_to_db_if_enabled(how) ==
    IF conv_store = "sqlite" THEN save_snapshot(how) ELSE db_mirror

\* save_all_conversations with a session: the writes in failed raise and are
\* logged, the Team Context is saved, then the mirror is written
save_all_conversations(failed, tc_ok, db_how) ==
    LET saved == save_team_context(team_ctx_model, team_context, tc_file, tc_file_by, tc_ok)
    IN  /\ conv_files' = [k \in ConvKeys |->
                            IF k \in failed THEN conv_files[k] ELSE files_to_save[k]]
        /\ tc_file' = saved.file
        /\ tc_file_by' = saved.by
        /\ db_mirror' = save_to_db_if_enabled(db_how)
        /\ n_saves' = n_saves + 1
        /\ logged' = Logged(\/ failed # {}
                            \/ saved.err
                            \/ conv_store = "sqlite" /\ db_how # "ok")
        /\ UNCHANGED <<conversations, display_conversations, full_context_conversations,
                       tool_conversations, tool_execute_conversations, conv_store,
                       team_context, team_ctx_model, regvars, mcpvars, loopvars,
                       tasks, released, chat_pc, surfaced, msg_error, mcp_result>>

\* A new EchoAgent for the same session: a new AgentStateManager (empty
\* transcripts, empty Team Context), then restore_from_session_files
restore_from_session_files(tc_ok) ==
    LET fresh == [tc |-> EmptyMap, model |-> NoModel, file |-> tc_file, by |-> tc_file_by,
                  err |-> FALSE]
    IN  /\ display_conversations' =
              IF conv_files["display"].kind # "absent" THEN conv_files["display"].data
              ELSE <<>>
        /\ full_context_conversations' =
              IF conv_files["full"].kind # "absent" THEN conv_files["full"].data
              ELSE <<>>
        /\ tool_conversations' =
              IF conv_files["tools"].kind = "json" THEN conv_files["tools"].data
              ELSE <<>>
        /\ conversations' =
              IF conv_files["conversations"].kind = "json"
              THEN conv_files["conversations"].data
              ELSE <<>>
        /\ tool_execute_conversations' = <<>>
        /\ SetTcState(load_team_context(fresh, tc_ok))
        /\ UNCHANGED <<conv_files, conv_store, db_mirror, n_saves, regvars, mcpvars,
                       loopvars, sessionvars>>

\* file_manager.remove_session_directory(old_session): FileManager has no
\* such method, the call raises AttributeError before anything is removed;
\* the directory after the call
remove_session_directory(files) == files

\* EchoAgent.reset_chat(preserve_session_id): the removal's exception is
\* logged; create_session makes the directory of the new session (the old
\* one when the id is preserved); the memory is emptied
reset_chat(preserve) ==
    /\ conversations' = <<>>
    /\ tool_conversations' = <<>>
    /\ display_conversations' = <<>>
    /\ full_context_conversations' = <<>>
    /\ tool_execute_conversations' = <<>>
    /\ team_context' = EmptyMap
    /\ team_ctx_model' = NoModel
    /\ IF preserve
       THEN /\ conv_files' = remove_session_directory(conv_files)
            /\ UNCHANGED <<tc_file, tc_file_by>>
       ELSE /\ conv_files' = [k \in ConvKeys |-> Absent]
            /\ tc_file' = NoFile
            /\ tc_file_by' = "none"
    /\ UNCHANGED <<conv_store, db_mirror, n_saves, regvars, mcpvars, loopvars, lifevars>>

\* A new state manager whose session has no file yet
StoreIdle ==
    /\ conversations = <<>>
    /\ display_conversations = <<>>
    /\ full_context_conversations = <<>>
    /\ tool_conversations = <<>>
    /\ tool_execute_conversations = <<>>
    /\ conv_files = [k \in ConvKeys |-> Absent]
    /\ db_mirror = NoMirror
    /\ n_saves = 0

TcIdle ==
    /\ team_context = EmptyMap
    /\ team_ctx_model = NoModel
    /\ tc_file = NoFile
    /\ tc_file_by = "none"

\* A process_query call that has not started or has ended
IdleTask == [at |-> "idle", version |-> "v1", steps |-> 0]

\* No execute_mcp_tool call was made
NoCall == [tool |-> None, parts |-> <<>>, how |-> "none", raised |-> FALSE, value |-> <<>>]

\* An agent on which no query runs, inside a chat loop that has printed
\* nothing yet, its loggers empty, its exit stack not closed
LifeIdle ==
    /\ tasks = [q \in Tasks |-> IdleTask]
    /\ released = <<>>
    /\ chat_pc = "chatting"
    /\ logged = {}
    /\ surfaced = {}
    /\ msg_error = FALSE
    /\ mcp_result = NoCall

(***************************************************************************)
(* RegSpec: registrations and the startup connection phase                 *)
(***************************************************************************)
LoopIdle ==
    /\ pc = "idle"
    /\ version = "v1"
    /\ intention_tools = <<>>
    /\ func_name = None
    /\ events = <<>>
    /\ dispatched = <<>>
    /\ last_raw = NoRaw
    /\ notices = {}
    /\ trace = <<>>

RegInit ==
    /\ name_to_callable = EmptyMap
    /\ name_to_model = EmptyMap
    /\ schemas = <<>>
    /\ registration_order = <<>>
    /\ local_tools = EmptyMap
    /\ tool_prompt_config = <<>>
    /\ reg_result = [name |-> None, raised |-> FALSE]
    /\ n_regs = 0
    /\ available_tools = <<>>
    /\ tool_to_session = EmptyMap
    /\ server_status = EmptyMap
    /\ sessions = <<>>
    /\ exit_stack = <<>>
    /\ conn_pc = "idle"
    /\ conn_idx = 0
    /\ results = EmptyMap
    /\ outcome = EmptyMap
    /\ LoopIdle
    /\ StoreIdle
    /\ conv_store = "None"
    /\ TcIdle
    /\ LifeIdle

RegisterFunction == \E f \in ToolFuncs : register_tool_function(f)
RegisterLocal == \E n \in LocalNames, i \in LocalInstances : register_local_tool(n, i)
ConnectFails == \E s \in Servers, o \in FailOutcomes : connect_to_server(s, o)
ConnectSucceeds == \E s \in Servers : connect_to_server(s, "ok")
Cleanup == \E raises \in BOOLEAN : cleanup(raises)
HandshakeHangs == \E s \in Servers : handshake_hangs(s)

McpNext ==
    \/ connect_to_servers_begin
    \/ ConnectFails
    \/ ConnectSucceeds
    \/ connect_to_servers_return

RegNext ==
    \/ RegisterFunction
    \/ RegisterLocal
    \/ HandshakeHangs
    \/ McpNext
    \/ Cleanup

RegSpec == RegInit /\ [][RegNext]_vars

\* The event loop runs a coroutine that can run
FairRegSpec == RegSpec /\ WF_vars(McpNext)

(***************************************************************************)
(* EchoAgent: intention resolution                                         *)
(***************************************************************************)
STOP_SIGNAL == "END()"
STOP_SIGNAL_V2 == "FINAL_ANS"

Versions == {"v1", "v2"}

\* The tool-call strings the tool model may write in its "tools" list; the
\* last one is text no function name can be extracted from.
CallStrs == {"END()", "FINAL_ANS()", "CodeRunner()", "search('q')", "ghost()", "???"}

\* tools_agent.function_call_toolbox.convert_outer_quotes: outer single
\* quotes become double quotes
convert_outer_quotes(call) ==
    IF call = "search('q')" THEN "search(\"q\")" ELSE call

\* tools_agent.function_call_toolbox.get_func_name: the name before the
\* opening parenthesis, and no string when there is none
get_func_name(call) ==
    CASE call = "END()" -> "END"
      [] call = "FINAL_ANS()" -> "FINAL_ANS"
      [] call = "CodeRunner()" -> "CodeRunner"
      [] call = "search(\"q\")" -> "search"
      [] call = "ghost()" -> "ghost"
      [] OTHER -> None

isinstance_str(x) == x # None

RECURSIVE SeqsUpTo(_, _)
SeqsUpTo(S, n) ==
    IF n = 0 THEN {<<>>}
    ELSE LET shorter == SeqsUpTo(S, n - 1)
         IN shorter \cup {Append(q, x) : q \in {r \in shorter : Len(r) = n - 1}, x \in S}

\* The raw outputs of the tool model, by what can be decoded from them
RawKinds == {"no_json", "not_dict", "no_tools_key", "tools_not_list", "tools_list"}

RawResponses ==
    {[kind |-> k, tools |-> <<>>] : k \in RawKinds \ {"tools_list"}}
    \cup {[kind |-> "tools_list", tools |-> t] : t \in SeqsUpTo(CallStrs, MaxTools)}


\* tools_agent.json_tool.get_json: the JSON value found in the text
get_json(raw) ==
    CASE raw.kind = "no_json" -> [is_dict |-> FALSE, has_tools |-> FALSE, is_list |-> FALSE, tools |-> <<>>]
      [] raw.kind = "not_dict" -> [is_dict |-> FALSE, has_tools |-> FALSE, is_list |-> FALSE, tools |-> <<>>]
      [] raw.kind = "no_tools_key" -> [is_dict |-> TRUE, has_tools |-> FALSE, is_list |-> FALSE, tools |-> <<>>]
      [] raw.kind = "tools_not_list" -> [is_dict |-> TRUE, has_tools |-> TRUE, is_list |-> FALSE, tools |-> <<>>]
      [] OTHER -> [is_dict |-> TRUE, has_tools |-> TRUE, is_list |-> TRUE, tools |-> raw.tools]

\* A resolver that checks the decoded names against the registry and maps a
\* decision naming an unknown tool to the stop signal
parse_intention_result_known_only(raw) ==
    LET json_result == get_json(raw)
    IN  IF ~(json_result.is_dict /\ json_result.has_tools /\ json_result.is_list)
        THEN <<STOP_SIGNAL>>
        ELSE IF json_result.tools = <<>> THEN <<STOP_SIGNAL>>
        ELSE IF \E i \in 1..Len(json_result.tools) :
                   /\ json_result.tools[i] # STOP_SIGNAL
                   /\ ~IsRegistered(get_func_name(convert_outer_quotes(json_result.tools[i])))
        THEN <<STOP_SIGNAL>>
        ELSE json_result.tools

\* A resolver whose emptiness test is off by one
parse_intention_result_short_is_empty(raw) ==
    LET json_result == get_json(raw)
    IN  IF ~(json_result.is_dict /\ json_result.has_tools /\ json_result.is_list)
        THEN <<STOP_SIGNAL>>
        ELSE IF Len(json_result.tools) <= 1 THEN <<STOP_SIGNAL>>
        ELSE json_result.tools

\* EchoAgent._parse_intention_result
parse_intention_result(raw) ==
    LET json_result == get_json(raw)
    IN  IF ~json_result.is_dict THEN <<STOP_SIGNAL>>
        ELSE IF ~json_result.has_tools THEN <<STOP_SIGNAL>>
        ELSE IF ~json_result.is_list THEN <<STOP_SIGNAL>>
        ELSE IF json_result.tools = <<>> THEN <<STOP_SIGNAL>>
        ELSE json_result.tools

\* EchoAgent._get_tool_intention_common: the list it returns
get_tool_intention_common(raw) ==
    IF raw = LlmRaised THEN <<STOP_SIGNAL>> ELSE parse_intention_result(raw)

\* A stop test that knows the v1 stop word only
stop_signal_v1_only(v, fn) ==
    v = "v1" /\ fn = STOP_SIGNAL

\* EchoAgent._stop_signal
stop_signal(v, fn) ==
    IF v = "v2" /\ fn = STOP_SIGNAL_V2 THEN TRUE
    ELSE IF v = "v1" /\ fn = STOP_SIGNAL THEN TRUE
    ELSE FALSE

\* A loop condition that does not look for the stop word in the list
should_continue_ignores_list(v, tools, fn) ==
    ~stop_signal(v, fn)

\* should_continue of _execute_tool_loop_common
should_continue(v, tools, fn) ==
    IF v = "v1" THEN STOP_SIGNAL \notin SeqToSet(tools)
    ELSE ~stop_signal(v, fn)

(***************************************************************************)
(* AgentToolManager.execute_tool                                           *)
(***************************************************************************)
\* The origin execute_tool dispatches tool_name to
origin(tool_name) ==
    IF has(tool_name) THEN "registry"
    ELSE IF tool_name \in DOMAIN local_tools THEN "local"
    ELSE IF is_mcp_tool(tool_name) THEN "mcp"
    ELSE "none"

\* An execute_tool without its final raise: it falls off its end and
\* returns None for a name no origin has
execute_tool_falls_through(tool_name) ==
    IF origin(tool_name) = "none" THEN {"returned"}
    ELSE {"returned", "raised"}

\* How execute_tool(tool_name) may end: the handler returns, the handler
\* (or the validation of its arguments) raises, or no origin has the name
execute_tool(tool_name) ==
    IF origin(tool_name) = "none" THEN {"not_found"}
    ELSE {"returned", "raised"}

\* ToolRegistry.execute validates the arguments of a function tool that was
\* registered with an argument model (model_validate_json); a function tool
\* without one is called with the decoded dict, a local tool with the
\* keyword arguments, a remote tool's arguments are forwarded as they are
validates(tool_name) ==
    /\ origin(tool_name) = "registry"
    /\ name_to_model[tool_name] # None

\* How execute_tool(tool_name, **kwargs) may end for arguments that fit the
\* tool's schema or do not, and whether the handler was called
execute_tool_args(tool_name, args_fit) ==
    IF origin(tool_name) = "none" THEN {[invoked |-> FALSE, how |-> "not_found"]}
    ELSE IF validates(tool_name) /\ ~args_fit THEN {[invoked |-> FALSE, how |-> "raised"]}
    ELSE {[invoked |-> TRUE, how |-> "returned"], [invoked |-> TRUE, how |-> "raised"]}

\* EchoAgent._create_tool_event
create_tool_event(event_type, tool_name, status) ==
    [type |-> event_type, tool_name |-> tool_name, status |-> status]

(***************************************************************************)
(* EchoAgent.process_query                                                 *)
(***************************************************************************)
\* An entry of the log of the running query; the log tells CodeRunner from
\* the other names
Entry(type, name) ==
    [type |-> type,
     name |-> IF name \in {None, "", "CodeRunner", "CodeRunner()", "END()", "FINAL_ANS()"}
              THEN name ELSE "other"]

\* A log that was given more than MaxTrace entries: its content is dropped
Overflowed == <<Entry("overflow", None)>>

\* The log with the entries es added
Log(t, es) ==
    IF t = Overflowed \/ Len(t) + Len(es) > MaxTrace THEN Overflowed
    ELSE t \o es

\* process_query up to its first model call: the user message is recorded
\* and the prompts are rebuilt
process_query_begin(v) ==
    /\ pc = "idle"
    /\ version' = v
    /\ pc' = IF v = "v1" THEN "answering" ELSE "resolving"
    /\ intention_tools' = <<>>
    /\ func_name' = None
    /\ events' = <<>>
    /\ dispatched' = <<>>
    /\ last_raw' = NoRaw
    /\ notices' = {}
    /\ trace' = <<Entry("user", None)>>
    /\ UNCHANGED <<regvars, mcpvars, statevars, lifevars>>

\* v1: the first _stream_main_answer; a raising main model ends the query
\* in the except clause of process_query
initial_answer(ok) ==
    /\ pc = "answering"
    /\ IF ok
       THEN /\ pc' = "resolving"
            /\ trace' = Log(trace, <<Entry("assistant", None)>>)
            /\ UNCHANGED notices
       ELSE /\ pc' = "finalizing"
            /\ notices' = notices \cup {"query_error"}
            /\ UNCHANGED trace
    /\ UNCHANGED <<version, intention_tools, func_name, events, dispatched, last_raw,
                   regvars, mcpvars, statevars, lifevars>>

\* The first _get_tool_intention_common of the query (line 589)
first_intention(raw) ==
    /\ pc = "resolving"
    /\ intention_tools' = get_tool_intention_common(raw)
    /\ last_raw' = raw
    /\ events' = <<>>
    /\ dispatched' = <<>>
    /\ pc' = "loop_entry"
    /\ UNCHANGED trace
    /\ UNCHANGED <<version, func_name, notices, regvars, mcpvars, statevars, lifevars>>

\* _execute_tool_loop_common before its while loop
tool_loop_entry ==
    /\ pc = "loop_entry"
    /\ IF intention_tools = <<>>
       THEN pc' = "finalizing" /\ UNCHANGED func_name
       ELSE /\ func_name' = get_func_name(convert_outer_quotes(intention_tools[1]))
            /\ pc' = IF stop_signal(version, func_name') THEN "final_answer" ELSE "loop_head"
    /\ UNCHANGED <<version, intention_tools, events, dispatched, last_raw, notices, trace,
                   regvars, mcpvars, statevars, lifevars>>

\* The final _stream_main_answer after a stop decision at the first step
final_answer(ok) ==
    /\ pc = "final_answer"
    /\ pc' = "finalizing"
    /\ notices' = IF ok THEN notices ELSE notices \cup {"query_error"}
    /\ trace' = IF ok THEN Log(trace, <<Entry("assistant", None)>>) ELSE trace
    /\ UNCHANGED <<version, intention_tools, func_name, events, dispatched, last_raw,
                   regvars, mcpvars, statevars, lifevars>>

\* A loop body that goes back to the loop head without resolving again
AfterSingleTool_no_resolution == "loop_head"

\* Where the while loop goes after _execute_single_tool (lines 684-698)
AfterSingleTool == "next_intention"

\* One test of the while condition and the body up to the dispatch
tool_loop_head ==
    /\ pc = "loop_head"
    /\ IF ~should_continue(version, intention_tools, func_name)
       THEN pc' = "finalizing" /\ UNCHANGED func_name
       ELSE IF intention_tools = <<>>
       THEN pc' = "finalizing" /\ UNCHANGED func_name
       ELSE /\ func_name' = get_func_name(convert_outer_quotes(intention_tools[1]))
            /\ pc' = IF stop_signal(version, func_name') THEN "finalizing"
                     ELSE IF ~isinstance_str(func_name') THEN "loop_head"
                     ELSE "single_tool"
    /\ UNCHANGED <<version, intention_tools, events, dispatched, last_raw, notices, trace,
                   regvars, mcpvars, statevars, lifevars>>

\* _execute_single_tool up to its first yield: tool_start
single_tool_start ==
    /\ pc = "single_tool"
    /\ events' = Append(events, create_tool_event("tool_start", func_name, "running"))
    /\ pc' = "executing"
    /\ trace' = Log(trace, <<Entry("tool_start", func_name)>>)
    /\ UNCHANGED <<version, intention_tools, func_name, dispatched, last_raw, notices,
                   regvars, mcpvars, statevars, lifevars>>

\* An _execute_single_tool whose except clause also catches what is raised
\* after the tool_result was yielded
ToolOutcomeEvents_twice(how, tool_name) ==
    IF how = "returned"
    THEN <<create_tool_event("tool_result", tool_name, "completed"),
           create_tool_event("tool_error", tool_name, "failed")>>
    ELSE <<create_tool_event("tool_error", tool_name, "failed")>>

\* The events _execute_single_tool yields when execute_tool ended with how
ToolOutcomeEvents(how, tool_name) ==
    IF how = "returned"
    THEN <<create_tool_event("tool_result", tool_name, "completed")>>
    ELSE <<create_tool_event("tool_error", tool_name, "failed")>>

\* The tool message _execute_single_tool adds to the full transcript when
\* execute_tool ended with how: add_message("tool", str(tool_result)) is on
\* the path of a returned result only
ToolObservation(how, tool_name) ==
    IF how = "returned" THEN <<Entry("tool", tool_name)>> ELSE <<>>

\* _execute_single_tool from execute_tool to the event of its outcome
single_tool_execute(how) ==
    /\ pc = "executing"
    /\ how \in execute_tool(func_name)
    /\ dispatched' = Append(dispatched, func_name)
    /\ events' = events \o ToolOutcomeEvents(how, func_name)
    /\ pc' = IF how = "returned" THEN "reflecting" ELSE AfterSingleTool
    /\ trace' = Log(trace, ToolObservation(how, func_name) \o
                            [i \in 1..Len(ToolOutcomeEvents(how, func_name)) |->
                               Entry(ToolOutcomeEvents(how, func_name)[i].type, func_name)])
    /\ UNCHANGED <<version, intention_tools, func_name, last_raw, notices,
                   regvars, mcpvars, statevars, lifevars>>

\* _generate_tool_response: its own except clause turns a raising main
\* model into a yielded diagnostic
generate_tool_response(ok) ==
    /\ pc = "reflecting"
    /\ notices' = IF ok THEN notices ELSE notices \cup {"response_error"}
    /\ trace' = IF ok THEN Log(trace, <<Entry("assistant", None)>>) ELSE trace
    /\ pc' = AfterSingleTool
    /\ UNCHANGED <<version, intention_tools, func_name, events, dispatched, last_raw,
                   regvars, mcpvars, statevars, lifevars>>

\* The end of the loop body: the next _get_tool_intention_common, the save,
\* the reset and the update of func_name (lines 697-708)
next_intention(raw) ==
    /\ pc = "next_intention"
    /\ intention_tools' = get_tool_intention_common(raw)
    /\ last_raw' = raw
    /\ events' = <<>>
    /\ dispatched' = <<>>
    /\ func_name' = IF intention_tools' # <<>>
                    THEN get_func_name(convert_outer_quotes(intention_tools'[1]))
                    ELSE func_name
    /\ pc' = "loop_head"
    /\ trace' = Log(trace, <<Entry("save", None)>>)
    /\ UNCHANGED <<version, notices, regvars, mcpvars, statevars, lifevars>>

\* _finalize_query_processing, in the finally clause of process_query
finalize_query_processing ==
    /\ pc = "finalizing"
    /\ pc' = "idle"
    /\ trace' = Log(trace, <<Entry("save", None)>>)
    /\ UNCHANGED <<version, intention_tools, func_name, events, dispatched, last_raw,
                   notices, regvars, mcpvars, statevars, lifevars>>

(***************************************************************************)
(* Spec: process_query on an agent whose tools are in place                *)
(***************************************************************************)
\* Server 1 answered discovery, the others could not be spawned
OneServerUp ==
    /\ available_tools = ServerTools(1)
    /\ tool_to_session = RegisterDiscovered(EmptyMap, ServerTools(1), 1)
    /\ server_status = [s \in Servers |-> s = 1]
    /\ sessions = <<1>>
    /\ exit_stack = << <<"transport", 1>>, <<"session", 1>> >>
    /\ conn_pc = "done"
    /\ conn_idx = MaxServers + 1
    /\ results = [s \in Servers |-> s = 1]
    /\ outcome = [s \in Servers |-> IF s = 1 THEN "ok" ELSE "fail_transport"]

\* No server configuration was found: there is no MCP tool
NoServer ==
    /\ available_tools = <<>>
    /\ tool_to_session = EmptyMap
    /\ server_status = EmptyMap
    /\ sessions = <<>>
    /\ exit_stack = <<>>
    /\ conn_pc = "done"
    /\ conn_idx = 0
    /\ results = EmptyMap
    /\ outcome = EmptyMap

NothingRegistered ==
    /\ name_to_callable = EmptyMap
    /\ name_to_model = EmptyMap
    /\ schemas = <<>>
    /\ registration_order = <<>>
    /\ local_tools = EmptyMap
    /\ tool_prompt_config = <<>>
    /\ reg_result = [name |-> None, raised |-> FALSE]
    /\ n_regs = 0

CodeRunnerRegistered ==
    /\ name_to_callable = ("CodeRunner" :> "f1")
    /\ name_to_model = ("CodeRunner" :> "CodeRunnerArgs")
    /\ schemas = <<"CodeRunner">>
    /\ registration_order = <<"CodeRunner">>
    /\ local_tools = EmptyMap
    /\ tool_prompt_config = <<>>
    /\ reg_result = [name |-> "CodeRunner", raised |-> FALSE]
    /\ n_regs = 1

CodeRunnerAndLocalSearch ==
    /\ name_to_callable = ("CodeRunner" :> "f1")
    /\ name_to_model = ("CodeRunner" :> "CodeRunnerArgs")
    /\ schemas = <<"CodeRunner">>
    /\ registration_order = <<"CodeRunner">>
    /\ local_tools = ("search" :> "i1")
    /\ tool_prompt_config = <<"search">>
    /\ reg_result = [name |-> "search", raised |-> FALSE]
    /\ n_regs = 2

\* The agent after construction and startup, in three of the states RegSpec
\* reaches
Init ==
    /\ \/ NothingRegistered /\ NoServer
       \/ CodeRunnerAndLocalSearch /\ NoServer
       \/ CodeRunnerRegistered /\ OneServerUp
    /\ LoopIdle
    /\ StoreIdle
    /\ conv_store = "None"
    /\ TcIdle
    /\ LifeIdle

ProcessQueryBegin == \E v \in Versions : process_query_begin(v)
InitialAnswer == \E ok \in BOOLEAN : initial_answer(ok)
FirstIntention == \E raw \in RawResponses \cup {LlmRaised} : first_intention(raw)
FinalAnswer == \E ok \in BOOLEAN : final_answer(ok)
SingleToolExecute == \E how \in {"returned", "raised", "not_found"} : single_tool_execute(how)
GenerateToolResponse == \E ok \in BOOLEAN : generate_tool_response(ok)
NextIntention == \E raw \in RawResponses \cup {LlmRaised} : next_intention(raw)

Next ==
    \/ ProcessQueryBegin
    \/ InitialAnswer
    \/ FirstIntention
    \/ tool_loop_entry
    \/ FinalAnswer
    \/ tool_loop_head
    \/ single_tool_start
    \/ SingleToolExecute
    \/ GenerateToolResponse
    \/ NextIntention
    \/ finalize_query_processing

Spec == Init /\ [][Next]_vars

\* The event loop runs a coroutine that can run, and every model call and
\* every tool call of the run ends
FairSpec == Spec /\ WF_vars(Next)

\* The steps of a query that do not wait for a tool: execute_tool is awaited
\* with no timeout (tool_execution_timeout is read nowhere), so the step
\* after it is taken only when the tool ends
StepsNotAwaitingTool ==
    \/ ProcessQueryBegin
    \/ InitialAnswer
    \/ FirstIntention
    \/ tool_loop_entry
    \/ FinalAnswer
    \/ tool_loop_head
    \/ single_tool_start
    \/ GenerateToolResponse
    \/ NextIntention
    \/ finalize_query_processing

\* The event loop runs a coroutine that can run and every model call ends;
\* a tool may never end
ToolMayHangSpec == Spec /\ WF_vars(StepsNotAwaitingTool)

(***************************************************************************)
(* Properties of the orchestration loop                                    *)
(***************************************************************************)
\* The query is between an intention resolution and what follows it
AfterResolution ==
    pc \in {"loop_entry", "loop_head", "single_tool", "executing", "reflecting",
            "next_intention"}

\* The name the loop extracts from the first call of a decoded list
HeadName(tools) == get_func_name(convert_outer_quotes(tools[1]))

\* The last raw output decoded to no usable decision: no JSON object, no
\* "tools" list, an empty list, or the resolution call raised
Degraded(raw) ==
    \/ raw.kind \in {"no_json", "not_dict", "no_tools_key", "tools_not_list", "llm_raised"}
    \/ raw.kind = "tools_list" /\ raw.tools = <<>>

\* C1: dispatching a name that no origin has registered does not abort the
\* query: execute_tool fails, exactly one tool_error event (status failed)
\* naming the tool is yielded, no diagnostic of an aborted query or loop is
\* yielded, and the next thing the query does is resolve the intention again.
C1_UnregisteredDispatchContinues ==
    [][ (pc = "executing" /\ ~IsRegistered(func_name)) =>
          /\ pc' = "next_intention"
          /\ events' = Append(events, [type |-> "tool_error", tool_name |-> func_name,
                                       status |-> "failed"])
          /\ Cardinality({i \in 1..Len(events') : events'[i].type = "tool_error"}) = 1
          /\ notices' = notices ]_vars

C1_Witness ==
    /\ pc = "next_intention"
    /\ dispatched = <<"ghost">>
    /\ ~IsRegistered("ghost")
    /\ events = << [type |-> "tool_start", tool_name |-> "ghost", status |-> "running"],
                   [type |-> "tool_error", tool_name |-> "ghost", status |-> "failed"] >>

\* C2: after a resolution whose raw output decodes to no usable decision
\* (or whose call raised), no tool is dispatched and the tool loop ends,
\* under v1 and under v2.
C2_DegradedDecisionTerminates ==
    Degraded(last_raw) =>
        pc \in {"loop_entry", "loop_head", "final_answer", "finalizing", "idle"}

UnknownDecision ==
    /\ last_raw.kind = "tools_list"
    /\ last_raw.tools # <<>>
    /\ isinstance_str(HeadName(last_raw.tools))
    /\ ~IsRegistered(HeadName(last_raw.tools))
    /\ ~stop_signal(version, HeadName(last_raw.tools))
    /\ version = "v1" => STOP_SIGNAL \notin SeqToSet(last_raw.tools)

NoNameDecision ==
    /\ pc = "loop_head"
    /\ intention_tools # <<>>
    /\ ~isinstance_str(HeadName(intention_tools))

\* C4: every query ends: the tool loop cannot run for ever, even when every
\* resolution yields a tool invocation and never a stop decision (stated for
\* the runs in which every decision names a tool).
C4_ProcessQueryTerminates ==
    (<>NoNameDecision) \/ ((pc # "idle") ~> (pc = "idle"))

\* C5: between two intention resolutions at most one tool is executed, and
\* it is the first call of the decoded list: the other entries are never
\* executed.
C5_AtMostOneToolPerResolution ==
    /\ Len(dispatched) <= 1
    /\ Cardinality({i \in 1..Len(events) : events[i].type = "tool_start"}) <= 1
    /\ dispatched # <<>> => dispatched[1] = HeadName(intention_tools)

C5_Witness ==
    /\ pc = "next_intention"
    /\ Len(intention_tools) = 2
    /\ intention_tools[2] = "search('q')"
    /\ IsRegistered("search")
    /\ dispatched = <<"CodeRunner">>

\* The last raw output decoded to {"tools": [c]}, c a call of one
\* registered tool
SingleRegisteredCall ==
    /\ last_raw.kind = "tools_list"
    /\ Len(last_raw.tools) = 1
    /\ isinstance_str(HeadName(last_raw.tools))
    /\ IsRegistered(HeadName(last_raw.tools))

\* C6: a raw output decoding to {"tools": [c]}, c a call of one registered
\* tool, is resolved to [c] unchanged, and the loop dispatches the tool c
\* names, and no other, for that resolution.
C6_SingleRegisteredCallIsDispatched ==
    (SingleRegisteredCall /\ pc # "resolving") =>
        /\ AfterResolution
        /\ intention_tools = last_raw.tools
        /\ pc \in {"executing", "reflecting", "next_intention"} =>
               func_name = HeadName(last_raw.tools)
        /\ pc \in {"reflecting", "next_intention"} =>
               dispatched = <<HeadName(last_raw.tools)>>

C6_Witness ==
    /\ SingleRegisteredCall
    /\ last_raw.tools = <<"search('q')">>
    /\ pc = "next_intention"
    /\ dispatched = <<"search">>

(***************************************************************************)
(* Properties of a whole query                                             *)
(***************************************************************************)
U == Entry("user", None)
A == Entry("assistant", None)
Saved == Entry("save", None)

\* The entries of the log before position i that open or close a step of
\* the dialogue: a user message or a tool result opens one, an assistant
\* message closes it
StepMarks(i) ==
    SelectSeq(SubSeq(trace, 1, i - 1),
              LAMBDA e : e.type \in {"user", "tool_result", "assistant"})

\* C13: whenever the session's artefacts are written, the dialogue is at a
\* step boundary: every user message and every tool result added so far is
\* followed by its assistant message, also when the query failed.
C13_SavedAtStepBoundary ==
    trace # Overflowed =>
        \A i \in 1..Len(trace) :
            (trace[i].type = "save" /\ StepMarks(i) # <<>>) =>
                StepMarks(i)[Len(StepMarks(i))].type = "assistant"

\* The tool model's output decodes to the stop decision of the variant v
StopDecision(v, raw) ==
    /\ raw.kind = "tools_list"
    /\ raw.tools = <<IF v = "v1" THEN "END()" ELSE "FINAL_ANS()">>

\* The tool events of the log, and the log without its saves
ToolOutcomes == SelectSeq(trace, LAMBDA e : e.type \in {"tool_result", "tool_error"})
Dialogue == SelectSeq(trace, LAMBDA e : e.type # "save")

\* C19: when the first resolution of a query yields the stop decision, the
\* query dispatches no tool (no tool_start is yielded), goes to its end
\* without entering a tool step, and has added exactly one assistant message
\* (one streamed answer) when it ends, under v1 and under v2 (the main model
\* answering).
C19_StopAtFirstResolution ==
    (/\ StopDecision(version, last_raw)
     /\ trace # Overflowed
     /\ ToolOutcomes = <<>>) =>
        /\ pc \in {"loop_entry", "loop_head", "final_answer", "finalizing", "idle"}
        /\ \A i \in 1..Len(trace) : trace[i].type # "tool_start"
        /\ (pc = "idle" /\ "query_error" \notin notices) => trace = <<U, A, Saved>>

C19_Witness ==
    /\ version = "v2"
    /\ StopDecision(version, last_raw)
    /\ pc = "idle"
    /\ trace = <<U, A, Saved>>

\* C20: when the first resolution invokes CodeRunner, the tool succeeds, the
\* reflection is produced and the next resolution yields the stop decision,
\* the query has yielded exactly tool_start(CodeRunner), then
\* tool_result(CodeRunner), then added the reflection as assistant message,
\* and it ends with no further tool event.
C20_OneCodeRunnerStep ==
    (/\ StopDecision(version, last_raw)
     /\ trace # Overflowed
     /\ ToolOutcomes = <<Entry("tool_result", "CodeRunner")>>
     /\ "response_error" \notin notices) =>
        /\ pc \in {"loop_head", "finalizing", "idle"}
        /\ Dialogue = <<U>> \o (IF version = "v1" THEN <<A>> ELSE <<>>)
                        \o <<Entry("tool_start", "CodeRunner"),
                             Entry("tool", "CodeRunner"),
                             Entry("tool_result", "CodeRunner"), A>>

C20_Witness ==
    /\ version = "v1"
    /\ StopDecision(version, last_raw)
    /\ pc = "idle"
    /\ trace = <<U, A, Entry("tool_start", "CodeRunner"), Entry("tool", "CodeRunner"),
                 Entry("tool_result", "CodeRunner"), A, Saved, Saved>>

\* The tool events of the log, in the order they were yielded
ToolEvents ==
    SelectSeq(trace, LAMBDA e : e.type \in {"tool_start", "tool_result", "tool_error"})

\* C21: in what process_query yields, the tool events come in pairs: a
\* tool_start (running), then one tool_result (completed) or tool_error
\* (failed) of the same tool before any other tool_start; no tool_result or
\* tool_error comes without its tool_start, so at most one invocation is
\* running at any time.
C21_EventsFinalizedOnce ==
    /\ trace # Overflowed =>
          \A i \in 1..Len(ToolEvents) :
              IF i % 2 = 1 THEN ToolEvents[i].type = "tool_start"
              ELSE /\ ToolEvents[i].type \in {"tool_result", "tool_error"}
                   /\ ToolEvents[i].name = ToolEvents[i - 1].name
    /\ \A i \in 1..Len(events) :
          IF i % 2 = 1 THEN events[i].type = "tool_start" /\ events[i].status = "running"
          ELSE /\ events[i].tool_name = events[i - 1].tool_name
               /\ \/ events[i].type = "tool_result" /\ events[i].status = "completed"
                  \/ events[i].type = "tool_error" /\ events[i].status = "failed"
    /\ (trace # Overflowed /\ Len(ToolEvents) % 2 = 1) => pc = "executing"

C21_Witness ==
    /\ pc = "next_intention"
    /\ ToolEvents = <<Entry("tool_start", "CodeRunner"), Entry("tool_result", "CodeRunner"),
                      Entry("tool_start", "other"), Entry("tool_error", "other")>>

\* A registration that succeeds, and the entries it adds to the catalogue
FunctionRegistered(f) == register_tool_function(f) /\ ~registerRaises(f)
LocalRegistered(n, i) == register_local_tool(n, i) /\ ~registerLocalRaises(n)

\* C24 as stated: the catalogue lists the tools in the order of their
\* registration whatever their origins: every registration that succeeds
\* puts its tool at the end of the catalogue.
C24_CatalogueInRegistrationOrder ==
    [][ /\ \A f \in ToolFuncs :
              FunctionRegistered(f) =>
                  get_all_tool_configs_for_prompt' =
                      Append(get_all_tool_configs_for_prompt, f.name)
        /\ \A n \in LocalNames, i \in LocalInstances :
              LocalRegistered(n, i) =>
                  get_all_tool_configs_for_prompt' =
                      Append(get_all_tool_configs_for_prompt, n) ]_vars

\* C24, amended: the catalogue lists the function tools, then the local
\* tools, then the remote tools, each group in the order of its
\* registrations: a registration that succeeds puts its tool at the end of
\* the group of its origin and moves no other entry.
C24_CatalogueGroupedByOrigin ==
    /\ [](get_all_tool_configs_for_prompt =
             registration_order \o tool_prompt_config \o mcp_list_available_tools)
    /\ [][ /\ \A f \in ToolFuncs :
                  FunctionRegistered(f) =>
                      get_all_tool_configs_for_prompt' =
                          Append(registration_order, f.name) \o tool_prompt_config
                              \o mcp_list_available_tools
            /\ \A n \in LocalNames, i \in LocalInstances :
                  LocalRegistered(n, i) =>
                      get_all_tool_configs_for_prompt' =
                          registration_order \o Append(tool_prompt_config, n)
                              \o mcp_list_available_tools
            /\ \A sv \in Servers :
                  connect_to_server(sv, "ok") =>
                      get_all_tool_configs_for_prompt' =
                          get_all_tool_configs_for_prompt \o ServerTools(sv) ]_vars

\* The local tool search was registered, then the function tool CodeRunner:
\* the catalogue lists CodeRunner first
C24_Witness ==
    /\ reg_result = [name |-> "CodeRunner", raised |-> FALSE]
    /\ "CodeRunner" \notin DOMAIN local_tools
    /\ tool_prompt_config = <<"search">>
    /\ get_all_tool_configs_for_prompt = <<"CodeRunner", "search">>

\* C23: MCPManager.cleanup, at whatever point of the startup it runs,
\* releases every resource the exit stack holds (those of a server whose
\* handshake failed included) in reverse order of acquisition, and leaves
\* the manager with no session, no tool and no tool-to-session entry.
C23_CleanupReleasesAll ==
    [][ \A raises \in BOOLEAN :
          cleanup(raises) =>
              /\ released' = Reverse(exit_stack)
              /\ exit_stack' = <<>>
              /\ sessions' = <<>>
              /\ available_tools' = <<>>
              /\ tool_to_session' = EmptyMap ]_vars

(***************************************************************************)
(* ConcSpec: several process_query calls on one agent, each consumed by    *)
(* its own asyncio task. A step runs one call from one suspension (a yield *)
(* to its consumer, an await that does not complete at once) to the next:  *)
(* the tool model call of _get_tool_intention_common is a synchronous loop *)
(* and never suspends; _stream_main_answer suspends at the yield of each   *)
(* chunk with the main model's stream open; execute_tool suspends in the   *)
(* await of a local or MCP tool, a registry tool runs synchronously.       *)
(***************************************************************************)
\* What a resolution decided, by how the loop goes on: stop, a tool that
\* execute_tool runs synchronously (or does not find), a tool it awaits
Decisions == {"stop", "sync_tool", "awaited_tool"}

ConcFrame == UNCHANGED <<regvars, mcpvars, loopvars, statevars, released, chat_pc,
                         logged, surfaced, msg_error, mcp_result>>

\* Where the call is suspended after a resolution that decided d; first: the
\* resolution of process_query (line 589), else the one of the loop body
AfterDecision(t, d, first) ==
    IF d = "stop"
    THEN IF first /\ t.version = "v2"
         THEN [t EXCEPT !.at = "final_answer_stream"]
         ELSE IdleTask
    ELSE [t EXCEPT !.at = IF d = "sync_tool" THEN "tool_start_sync"
                          ELSE "tool_start_awaited",
                   !.steps = t.steps + 1]

\* process_query is called and runs to its first suspension: v1 opens the
\* stream of the initial answer, v2 resolves the intention at once
task_begin(q, v, d) ==
    /\ tasks[q].at = "idle"
    /\ d = "stop" \/ tasks[q].steps < MaxSteps
    /\ tasks' = [tasks EXCEPT ![q] =
                    IF v = "v1" THEN [at |-> "answer_stream", version |-> v, steps |-> 0]
                    ELSE AfterDecision([at |-> "idle", version |-> v, steps |-> 0], d, TRUE)]
    /\ ConcFrame

\* The main model's stream is exhausted: the assistant message is added and
\* the call runs on, through the next resolution, to its next suspension
task_stream_ends(q, d) ==
    /\ tasks[q].at \in {"answer_stream", "reflect_stream", "final_answer_stream"}
    /\ d = "stop" \/ tasks[q].steps < MaxSteps
    /\ tasks' = [tasks EXCEPT ![q] =
                    IF tasks[q].at = "final_answer_stream" THEN IdleTask
                    ELSE AfterDecision(tasks[q], d, tasks[q].at = "answer_stream")]
    /\ ConcFrame

\* The consumer took the tool_start: execute_tool is called
task_execute_tool(q, how) ==
    /\ tasks[q].at \in {"tool_start_sync", "tool_start_awaited"}
    /\ tasks' = [tasks EXCEPT ![q].at =
                    IF tasks[q].at = "tool_start_awaited" THEN "tool_await"
                    ELSE IF how = "returned" THEN "tool_result_yielded"
                    ELSE "tool_error_yielded"]
    /\ ConcFrame

\* The awaited tool returns or raises
task_tool_ends(q, how) ==
    /\ tasks[q].at = "tool_await"
    /\ tasks' = [tasks EXCEPT ![q].at =
                    IF how = "returned" THEN "tool_result_yielded" ELSE "tool_error_yielded"]
    /\ ConcFrame

\* The consumer took the tool event: after a result the reflection stream is
\* opened, after an error the loop resolves the next intention
task_after_tool_event(q, d) ==
    /\ tasks[q].at \in {"tool_result_yielded", "tool_error_yielded"}
    /\ d = "stop" \/ tasks[q].steps < MaxSteps
    /\ tasks' = [tasks EXCEPT ![q] =
                    IF tasks[q].at = "tool_result_yielded"
                    THEN [tasks[q] EXCEPT !.at = "reflect_stream"]
                    ELSE AfterDecision(tasks[q], d, FALSE)]
    /\ ConcFrame

TaskBegin == \E q \in Tasks, v \in Versions, d \in Decisions : task_begin(q, v, d)
TaskStreamEnds == \E q \in Tasks, d \in Decisions : task_stream_ends(q, d)
TaskExecuteTool == \E q \in Tasks, how \in {"returned", "raised"} : task_execute_tool(q, how)
TaskToolEnds == \E q \in Tasks, how \in {"returned", "raised"} : task_tool_ends(q, how)
TaskAfterToolEvent == \E q \in Tasks, d \in Decisions : task_after_tool_event(q, d)

ConcInit ==
    /\ CodeRunnerAndLocalSearch
    /\ NoServer
    /\ LoopIdle
    /\ StoreIdle
    /\ conv_store = "None"
    /\ TcIdle
    /\ LifeIdle

ConcNext ==
    \/ TaskBegin
    \/ TaskStreamEnds
    \/ TaskExecuteTool
    \/ TaskToolEnds
    \/ TaskAfterToolEvent

ConcSpec == ConcInit /\ [][ConcNext]_vars

\* The call q has a model call or a tool invocation under way
InFlight(q) ==
    tasks[q].at \in {"answer_stream", "reflect_stream", "final_answer_stream", "tool_await"}

\* C22: on one agent at most one model call or tool invocation is under way
\* at any time, however the process_query calls made on it interleave.
C22_OneInFlight ==
    Cardinality({q \in Tasks : InFlight(q)}) <= 1

(***************************************************************************)
(* StoreSpec: the state manager of one session, its files, the mirror, and *)
(* a new agent restoring the session                                       *)
(***************************************************************************)
StoreFrame == UNCHANGED <<regvars, mcpvars, loopvars, sessionvars>>

\* The roles of the messages the stored session is given: one that every
\* projection takes, one that only the full transcript takes
StoredRoles == {"user", "tool"}

AddMessage ==
    \E role \in StoredRoles :
        /\ Len(full_context_conversations) < MaxMsgs
        /\ add_message(role)
        /\ UNCHANGED <<tool_conversations, conv_files, conv_store, db_mirror, n_saves,
                       tcvars, logged>>
        /\ UNCHANGED <<regvars, mcpvars, loopvars, tasks, released, chat_pc, surfaced,
                       mcp_result>>

IntentionResolution ==
    \E ok \in BOOLEAN :
        /\ Len(tool_execute_conversations) < MaxMsgs
        /\ intention_resolution(ok)

\* EchoAgent.set_team_goal
set_team_goal(goal, ok) ==
    /\ SetTcState(update_team_context(TcState, "team_goal" :> goal, ok))
    /\ UNCHANGED storevars
    /\ StoreFrame

SetTeamGoal == \E ok \in BOOLEAN : set_team_goal("g", ok)

\* The writes of one save that fail: none, the one of one file, all of them
FailureSets == {{}, {"display"}, ConvKeys}

SaveAllConversations ==
    \E failed \in FailureSets, tc_ok \in BOOLEAN, db_how \in DbOutcomes :
        /\ n_saves < MaxSaves
        /\ save_all_conversations(failed, tc_ok, db_how)

NewAgentRestores == \E tc_ok \in BOOLEAN : restore_from_session_files(tc_ok)

ResetChat == \E preserve \in BOOLEAN : reset_chat(preserve)

StoreInit ==
    /\ NothingRegistered
    /\ NoServer
    /\ LoopIdle
    /\ StoreIdle
    /\ conv_store \in {"None", "sqlite"}
    /\ TcIdle
    /\ LifeIdle

StoreNext ==
    \/ AddMessage
    \/ IntentionResolution
    \/ SetTeamGoal
    \/ SaveAllConversations
    \/ NewAgentRestores
    \/ ResetChat

StoreSpec == StoreInit /\ [][StoreNext]_vars

(***************************************************************************)
(* Properties of the persistence of a session                              *)
(***************************************************************************)
\* What the state manager holds of the session in memory
Memory ==
    <<display_conversations, full_context_conversations, tool_execute_conversations,
      tool_conversations, conversations, team_context>>

\* The files hold what save_all_conversations writes from the present memory
SnapshotTaken ==
    /\ conv_files = files_to_save
    /\ tc_file = JsonDict(payload(team_ctx_model, team_context))

\* C11: a new state manager that restores the session from the files a
\* save_all_conversations has just written holds what the saving state
\* manager held: the two transcripts, the tool-execution transcript, the
\* tool conversations, the message list and the Team Context.
C11_RestoreIsIdentity ==
    [][ (SnapshotTaken /\ \E tc_ok \in BOOLEAN : restore_from_session_files(tc_ok)) =>
            Memory' = Memory ]_vars

\* C12: save_all_conversations is all or nothing: when it returns, every
\* file of the session holds what is in memory, or every file is as it was.
C12_SaveIsAtomic ==
    [][ \A failed \in FailureSets, tc_ok \in BOOLEAN, db_how \in DbOutcomes :
          save_all_conversations(failed, tc_ok, db_how) =>
              \/ SnapshotTaken'
              \/ conv_files' = conv_files /\ tc_file' = tc_file ]_vars

\* C18: the mirror is written only when the files have been written: a
\* save_all_conversations that changes the mirror leaves every file holding
\* what is in memory.
C18_MirrorAfterFiles ==
    [][ \A failed \in FailureSets, tc_ok \in BOOLEAN, db_how \in DbOutcomes :
          (save_all_conversations(failed, tc_ok, db_how) /\ db_mirror' # db_mirror) =>
              SnapshotTaken' ]_vars

\* C25: when reset_chat returns, the message list, the three transcripts and
\* the Team Context are empty in memory, and the directory of the old
\* session holds none of its artefacts any more, also when the session id
\* is preserved.
C25_ResetErasesSession ==
    [][ \A preserve \in BOOLEAN :
          reset_chat(preserve) =>
              /\ conversations' = <<>> /\ tool_conversations' = <<>>
              /\ display_conversations' = <<>>
              /\ full_context_conversations' = <<>>
              /\ tool_execute_conversations' = <<>>
              /\ team_context' = EmptyMap
              /\ remove_session_directory(conv_files) = [k \in ConvKeys |-> Absent]
              /\ preserve => (conv_files' = [k \in ConvKeys |-> Absent] /\ tc_file' = NoFile)
      ]_vars

\* The position of the last tool_start of the log, 0 when it has none
LastStart ==
    LET starts == {i \in 1..Len(trace) : trace[i].type = "tool_start"}
    IN  IF starts = {} THEN 0 ELSE CHOOSE i \in starts : \A j \in starts : j <= i

\* C30: when a tool invocation failed (tool_error), a tool message for it
\* has been added to the full transcript by the time the next intention
\* resolution starts.
C30_FailureObserved ==
    (/\ pc = "next_intention"
     /\ trace # Overflowed
     /\ \E i \in LastStart + 1..Len(trace) : trace[i].type = "tool_error") =>
        \E j \in LastStart + 1..Len(trace) : trace[j].type = "tool"

\* The assistant messages added since the last tool_start
SinceLastStart(type) == {i \in LastStart + 1..Len(trace) : trace[i].type = type}

\* C31: when the loop is about to resolve the intention again after a tool
\* was dispatched, the main model has been invoked on the tool's outcome and
\* exactly one assistant message was added since the dispatch (the main
\* model not failing).
C31_ReflectionAfterEveryTool ==
    (/\ pc = "next_intention"
     /\ trace # Overflowed
     /\ LastStart > 0
     /\ "response_error" \notin notices) =>
        Cardinality(SinceLastStart("assistant")) = 1

\* C32: under v1 the main model's answer is the first thing after the
\* user's message, before any resolution; under v2 the first resolution
\* comes before any answer, and a query that ends on the stop decision
\* FINAL_ANS has streamed a final answer after that resolution, also when
\* tools were invoked before it (the main model not failing).
C32_VariantOrdersAnswerAndResolution ==
    trace # Overflowed =>
        /\ (version = "v1" /\ last_raw # NoRaw) => (Len(trace) >= 2 /\ trace[2] = A)
        /\ (version = "v2" /\ pc = "loop_entry") => trace = <<U>>
        /\ (/\ version = "v2"
             /\ pc = "idle"
             /\ StopDecision(version, last_raw)
             /\ notices = {}) =>
                (Len(trace) >= 2 /\ trace[Len(trace) - 1] = A)

\* C33: whatever the origin of the tool that is being executed, arguments
\* that do not fit its schema are rejected before its handler is called:
\* the call raises (and the invocation ends in a tool_error event).
C33_ArgumentsValidatedForEveryOrigin ==
    (pc = "executing" /\ origin(func_name) # "none") =>
        \A o \in execute_tool_args(func_name, FALSE) :
            ~o.invoked /\ o.how = "raised" /\ o.how \in execute_tool(func_name)

\* C35: a tool invocation that was started ends, also when the tool itself
\* never completes: the query leaves the await of execute_tool with an
\* outcome event and goes on to the reflection or the next resolution.
C35_HungToolTimesOut ==
    (pc = "executing") ~> (pc \in {"reflecting", "next_intention"})

\* C36: an iteration of the tool loop that has started ends the loop or
\* dispatches the tool of the current decision: the loop does not stay at
\* its head.
C36_IterationMakesProgress ==
    (pc = "loop_head") ~> (pc \in {"finalizing", "single_tool"})

\* C37: a query that has ended on the stop decision of its variant, the
\* main model never failing, has added at least one assistant message.
C37_StoppedQueryHasAnswer ==
    (/\ pc = "idle"
     /\ StopDecision(version, last_raw)
     /\ trace # Overflowed
     /\ notices = {}) =>
        \E i \in 1..Len(trace) : trace[i] = A

\* a is a prefix of b
IsPrefix(a, b) == Len(a) <= Len(b) /\ SubSeq(b, 1, Len(a)) = a

\* C38: no step other than reset_chat (a message added, a resolution, a
\* save, a new agent restoring the session) shortens or rewrites the full
\* transcript or the user-visible transcript: each is a prefix of what it
\* is after the step.
C38_TranscriptsOnlyGrow ==
    [][ResetChat \/ (/\ IsPrefix(full_context_conversations, full_context_conversations')
                      /\ IsPrefix(display_conversations, display_conversations'))]_vars

(***************************************************************************)
(* MsgSpec: the transcripts and the message list under the calls a query   *)
(* makes on the state manager                                              *)
(***************************************************************************)
\* The roles add_message is called with, one of them unsupported
CalledRoles == Roles \cup {"system"}

MsgAddMessage ==
    \E role \in CalledRoles :
        /\ role \in Roles => Len(full_context_conversations) < MaxMsgs
        /\ add_message(role)
        /\ UNCHANGED <<tool_conversations, conv_files, conv_store, db_mirror, n_saves,
                       tcvars, logged>>
        /\ UNCHANGED <<regvars, mcpvars, loopvars, tasks, released, chat_pc, surfaced,
                       mcp_result>>

AgentReset == \E how \in AgentResetOutcomes : agent_reset(how)

MsgInit == RegInit

MsgNext ==
    \/ MsgAddMessage
    \/ AgentReset
    \/ IntentionResolution

MsgSpec == MsgInit /\ [][MsgNext]_vars

\* C28: the message list only grows at its end: no step a query makes
\* removes or changes a message it holds.
C28_MessageListAppendOnly ==
    [][IsPrefix(conversations, conversations')]_vars

\* The messages of a transcript that the user is shown
Visible(transcript) == SelectSeq(transcript, LAMBDA r : r \in {"user", "assistant"})

\* C29: add_message appends a user or assistant message to the user-visible
\* and to the full transcript, a tool or react message to the full
\* transcript only, and raises for another role without changing a
\* transcript or the message list: the user-visible transcript is the full
\* one without its tool and react messages.
C29_ProjectionsConsistent ==
    /\ [](display_conversations = Visible(full_context_conversations))
    /\ [][ \A role \in CalledRoles :
              add_message(role) =>
                  /\ full_context_conversations' =
                        IF role \in {"user", "assistant", "tool", "react"}
                        THEN Append(full_context_conversations, role)
                        ELSE full_context_conversations
                  /\ display_conversations' =
                        IF role \in {"user", "assistant"}
                        THEN Append(display_conversations, role)
                        ELSE display_conversations
                  /\ msg_error' = (role = "system")
                  /\ role = "system" =>
                        UNCHANGED <<conversations, tool_execute_conversations>> ]_vars

C29_Witness ==
    /\ full_context_conversations = <<"user", "tool">>
    /\ display_conversations = <<"user">>
    /\ msg_error

(***************************************************************************)
(* ChatSpec: agent_chat_loop from the construction of the agent to its     *)
(* shutdown                                                                *)
(***************************************************************************)
\* How EchoAgent.__init__ may end: no step fails, or create_session,
\* AgentStateManager(config), restore_from_session_files or an LLMManager
\* fails
InitOutcomes == {"ok", "create_session", "state_manager", "restore", "llm_manager"}

\* An __init__ that re-raises a failure of create_session only
InitRaises_storage_only(failure) == failure = "create_session"

\* __init__ catches a failing restore; its outer except clause logs and
\* re-raises every other failure
InitRaises(failure) == failure \in {"create_session", "state_manager", "llm_manager"}

\* What a failing step of a query is logged as
QueryFailures == {"main_model", "tool_model", "tool", "tool_response"}

\* The diagnostic or event process_query yields for a failure; the tool
\* model's failure is logged and taken as the stop decision
Yielded(failure) ==
    CASE failure = "main_model" -> {"query_error"}
      [] failure = "tool" -> {"tool_error"}
      [] failure = "tool_response" -> {"response_error"}
      [] OTHER -> {}

ChatFrame == UNCHANGED <<regvars, mcpvars, loopvars, statevars, tasks, released, msg_error,
                         mcp_result>>

\* agent = EchoAgent(config)
echo_agent_init(failure) ==
    /\ chat_pc = "start"
    /\ logged' = IF failure = "ok" THEN logged ELSE logged \cup {failure}
    /\ chat_pc' = IF InitRaises(failure) THEN "init_raised" ELSE "constructed"
    /\ UNCHANGED surfaced
    /\ ChatFrame

\* _initialize_mcp_tools: its except clause logs and prints, nothing is
\* raised
initialize_mcp_tools(ok) ==
    /\ chat_pc = "constructed"
    /\ logged' = IF ok THEN logged ELSE logged \cup {"mcp_init"}
    /\ surfaced' = IF ok THEN surfaced ELSE surfaced \cup {"mcp_init_printed"}
    /\ chat_pc' = "chatting"
    /\ ChatFrame

\* The try block of process_query, its chunks printed by chat_loop_common:
\* the steps in failed raise, each is logged and its diagnostic, if it has
\* one, is yielded. A raising main model ends the block at once.
process_query_try(failed) ==
    /\ chat_pc = "chatting"
    /\ "main_model" \in failed => failed = {"main_model"}
    /\ logged' = logged \cup failed
    /\ surfaced' = surfaced \cup UNION {Yielded(f) : f \in failed}
    /\ chat_pc' = "query_finally"
    /\ ChatFrame

\* The finally clause of process_query: _finalize_query_processing saves,
\* a failing write is logged
process_query_finally(save_ok) ==
    /\ chat_pc = "query_finally"
    /\ logged' = Logged(~save_ok)
    /\ chat_pc' = "chatting"
    /\ UNCHANGED surfaced
    /\ ChatFrame

\* chat_loop_common returns: the user typed an exit command
chat_loop_exit ==
    /\ chat_pc = "chatting"
    /\ surfaced' = surfaced \cup {"goodbye"}
    /\ chat_pc' = "closing"
    /\ UNCHANGED logged
    /\ ChatFrame

\* agent_chat_loop's except clause for what EchoAgent(config) raised
agent_chat_loop_except ==
    /\ chat_pc = "init_raised"
    /\ surfaced' = surfaced \cup {"fatal_error"}
    /\ chat_pc' = "closing"
    /\ UNCHANGED logged
    /\ ChatFrame

\* agent_chat_loop's finally clause: the connections are cleaned up and
\* the two closing lines are printed
agent_chat_loop_finally ==
    /\ chat_pc = "closing"
    /\ surfaced' = surfaced \cup {"closing", "closed"}
    /\ chat_pc' = "closed"
    /\ UNCHANGED logged
    /\ ChatFrame

EchoAgentInit == \E failure \in InitOutcomes : echo_agent_init(failure)
InitializeMcpTools == \E ok \in BOOLEAN : initialize_mcp_tools(ok)
ProcessQueryTry == \E failed \in SUBSET QueryFailures : process_query_try(failed)
ProcessQueryFinally == \E save_ok \in BOOLEAN : process_query_finally(save_ok)

ChatInit ==
    /\ CodeRunnerAndLocalSearch
    /\ NoServer
    /\ LoopIdle
    /\ StoreIdle
    /\ conv_store = "None"
    /\ TcIdle
    /\ tasks = [q \in Tasks |-> IdleTask]
    /\ released = <<>>
    /\ chat_pc = "start"
    /\ logged = {}
    /\ surfaced = {}
    /\ msg_error = FALSE
    /\ mcp_result = NoCall

ChatNext ==
    \/ EchoAgentInit
    \/ InitializeMcpTools
    \/ ProcessQueryTry
    \/ ProcessQueryFinally
    \/ chat_loop_exit
    \/ agent_chat_loop_except
    \/ agent_chat_loop_finally

ChatSpec == ChatInit /\ [][ChatNext]_vars

\* The agent was constructed and the chat loop runs or has run
Constructed == chat_pc \in {"constructed", "chatting", "query_finally"} \/ "goodbye" \in surfaced

C27_PersistenceFailureSurfaced ==
    (chat_pc = "closed" /\ PersistenceError \in logged) =>
        PersistenceError \in surfaced

(***************************************************************************)
(* CallSpec: calls of remote tools on a manager with two connections       *)
(***************************************************************************)
\* The content items a remote tool's result may hold: texts "a", "b", an
\* empty text, and an item with no text attribute (an image)
Contents ==
    {[has_text |-> TRUE, text |-> <<"a">>], [has_text |-> TRUE, text |-> <<"b">>],
     [has_text |-> TRUE, text |-> <<>>], [has_text |-> FALSE, text |-> <<>>]}

\* The names a remote tool is called by: two discovered ones, one unknown
CalledTools == {"search", "fetch", "ghost"}

\* How session.call_tool ends: with a result, or it raises (the connection
\* is closed or the server answers with an error)
CallOutcomes == {"result", "call_raised"}

\* str(result), returned when no text was collected
StrOfResult == <<"str(result)">>

\* A loop body that puts the text of the item before the collected text
append_text_front(content_text, content) ==
    IF content.has_text THEN content.text \o content_text ELSE content_text

\* The body of the loop over result.content: content_text += content.text
append_text(content_text, content) ==
    IF content.has_text THEN content_text \o content.text ELSE content_text

RECURSIVE collect_text(_, _)
collect_text(content_text, parts) ==
    IF parts = <<>> THEN content_text
    ELSE collect_text(append_text(content_text, Head(parts)), Tail(parts))

\* MCPManager.execute_mcp_tool
execute_mcp_tool(tool_name, parts, how) ==
    /\ mcp_result' =
          IF tool_name \notin DOMAIN tool_to_session \/ how = "call_raised"
          THEN [tool |-> tool_name, parts |-> parts, how |-> how, raised |-> TRUE,
                value |-> <<>>]
          ELSE [tool |-> tool_name, parts |-> parts, how |-> how, raised |-> FALSE,
                value |-> IF collect_text(<<>>, parts) # <<>>
                          THEN collect_text(<<>>, parts) ELSE StrOfResult]
    /\ UNCHANGED <<regvars, mcpvars, loopvars, statevars, tasks, released, chat_pc,
                   surfaced, msg_error, logged>>

ExecuteMcpTool ==
    \E tool_name \in CalledTools, parts \in SeqsUpTo(Contents, MaxParts),
       how \in CallOutcomes :
        execute_mcp_tool(tool_name, parts, how)

\* Both servers connected: the second one discovered "search" last and
\* owns it
TwoServersUp ==
    /\ available_tools = ServerTools(1) \o ServerTools(2)
    /\ tool_to_session =
          RegisterDiscovered(RegisterDiscovered(EmptyMap, ServerTools(1), 1), ServerTools(2), 2)
    /\ server_status = [s \in Servers |-> s \in {1, 2}]
    /\ sessions = <<1, 2>>
    /\ exit_stack = << <<"transport", 1>>, <<"session", 1>>,
                       <<"transport", 2>>, <<"session", 2>> >>
    /\ conn_pc = "done"
    /\ conn_idx = MaxServers + 1
    /\ results = [s \in Servers |-> s \in {1, 2}]
    /\ outcome = [s \in Servers |-> IF s \in {1, 2} THEN "ok" ELSE "fail_transport"]

CallInit ==
    /\ CodeRunnerAndLocalSearch
    /\ TwoServersUp
    /\ LoopIdle
    /\ StoreIdle
    /\ conv_store = "None"
    /\ TcIdle
    /\ LifeIdle

CallNext == ExecuteMcpTool

CallSpec == CallInit /\ [][CallNext]_vars

\* The texts of the items of parts that have one, joined in their order
RECURSIVE TextsInOrder(_)
TextsInOrder(parts) ==
    IF parts = <<>> THEN <<>>
    ELSE (IF Head(parts).has_text THEN Head(parts).text ELSE <<>>) \o TextsInOrder(Tail(parts))

\* The call that mcp_result records failed: the tool has no owning
\* connection or the connection's call raised
CallFailed ==
    mcp_result.tool \notin DOMAIN tool_to_session \/ mcp_result.how = "call_raised"

\* What no call of a remote tool changes: the tool map, the status map, the
\* connections and the local tools
ManagerState ==
    <<tool_to_session, server_status, sessions, available_tools, exit_stack, local_tools,
      name_to_callable>>

\* C34 as stated: a call that does not fail returns the concatenation of
\* the result's textual parts, whatever they are.
C34_ReturnsConcatenation ==
    (mcp_result.tool # None /\ ~CallFailed) =>
        (~mcp_result.raised /\ mcp_result.value = TextsInOrder(mcp_result.parts))

\* C34: a call of a remote tool raises exactly when the tool has no owning
\* connection or the connection's call raises, and otherwise returns the
\* texts of the result's parts joined in their order or, when they give no
\* text at all, the string form of the whole result; no call changes the
\* tool map, the status map, the connections or the local tools.
C34_TextOrStrOfResult ==
    /\ [](mcp_result.tool # None =>
            /\ mcp_result.raised = CallFailed
            /\ ~CallFailed =>
                  mcp_result.value =
                      IF TextsInOrder(mcp_result.parts) = <<>> THEN StrOfResult
                      ELSE TextsInOrder(mcp_result.parts))
    /\ [][ManagerState' = ManagerState]_vars

C34_Witness ==
    /\ mcp_result.tool = "fetch"
    /\ mcp_result.parts = <<[has_text |-> TRUE, text |-> <<"a">>],
                            [has_text |-> TRUE, text |-> <<"b">>]>>
    /\ mcp_result.value = <<"a", "b">>
    /\ tool_to_session["fetch"] = 2

(***************************************************************************)
(* TcSpec: the Team Context under patches, loads, tool results and other   *)
(* writers of the shared file                                              *)
(***************************************************************************)
\* What another writer of the shared file (set_team_context_override_path)
\* may leave in it
ExternalContents ==
    { [kind |-> "garbage", data |-> EmptyMap],
      [kind |-> "list", data |-> EmptyMap],
      JsonDict("answer" :> "a"),
      JsonDict(("team_goal" :> "<5>") @@ ("answer" :> "a")),
      JsonDict("team_goal" :> "<5>"),
      JsonDict(("team_goal" :> "g") @@ ("objectives" :> "[o]")) }

TcFrame == UNCHANGED <<regvars, mcpvars, loopvars, storevars, sessionvars>>

UpdateTeamContext ==
    \E patch \in Patches, ok \in BOOLEAN :
        SetTcState(update_team_context(TcState, patch, ok)) /\ TcFrame

LoadTeamContext ==
    \E ok \in BOOLEAN : SetTcState(load_team_context(TcState, ok)) /\ TcFrame

ToolResultUpdate ==
    \E shape \in ToolResultShapes, found \in Dicts, ok \in BOOLEAN :
        /\ SetTcState(maybe_update_team_context_from_tool_result(TcState, shape, found, ok))
        /\ TcFrame

ExternalWrite ==
    \E c \in ExternalContents :
        /\ tc_file' = c
        /\ tc_file_by' = "external"
        /\ UNCHANGED <<team_context, team_ctx_model, logged>>
        /\ TcFrame

TcInit == RegInit

TcNext ==
    \/ UpdateTeamContext
    \/ LoadTeamContext
    \/ ToolResultUpdate
    \/ ExternalWrite

TcSpec == TcInit /\ [][TcNext]_vars

(***************************************************************************)
(* Properties of the Team Context                                          *)
(***************************************************************************)
\* A second agent that shares the Team Context file: it was constructed
\* while the file did not exist yet, so its own Team Context is empty;
\* update_team_context does not read the file
OtherAgent ==
    [tc |-> EmptyMap, model |-> NoModel, file |-> tc_file, by |-> tc_file_by, err |-> FALSE]

\* C39: when the shared file holds what this agent's update wrote and a
\* second agent then merges a patch Q, the file holds every key it held
\* that Q does not name, with the value it had, and Q's keys (other than
\* "answer") with Q's values.
C39_SharedFileMergePatch ==
    (tc_file_by = "agent" /\ tc_file.kind = "dict") =>
        \A Q \in Patches :
            LET after == update_team_context(OtherAgent, Q, TRUE).file.data
            IN  /\ \A k \in DOMAIN tc_file.data \ DOMAIN Q :
                      k \in DOMAIN after /\ after[k] = tc_file.data[k]
                /\ \A k \in DOMAIN Q \ {DisallowedKey} :
                      k \in DOMAIN after

\* C14: update_team_context(P) leaves every key of P other than "answer"
\* with P's value, and every key of the Team Context that P does not have
\* with the value it had.
C14_PatchOverwritesAndPreserves ==
    [][ \A patch \in Patches, ok \in BOOLEAN :
          SetTcState(update_team_context(TcState, patch, ok)) =>
            /\ \A k \in DOMAIN patch \ {DisallowedKey} :
                  k \in DOMAIN team_context' /\ team_context'[k] = patch[k]
            /\ \A k \in DOMAIN team_context \ DOMAIN patch :
                  k \in DOMAIN team_context' /\ team_context'[k] = team_context[k] ]_vars

\* C15: applying one patch twice in a row leaves the Team Context in memory
\* and its file as they are after applying it once (the writes succeeding).
C15_UpdateIdempotent ==
    \A patch \in Patches :
        LET once == update_team_context(TcState, patch, TRUE)
            twice == update_team_context(once, patch, TRUE)
        IN  twice.tc = once.tc /\ twice.file = once.file

\* C16: "answer" is never a top-level key of the Team Context in memory, nor
\* of the Team Context file as the state manager wrote it; and whatever the
\* file holds, it has no top-level "answer" once load_team_context or
\* update_team_context has returned (the write succeeding), whatever the patch.
Clean(file) == file.kind = "dict" => DisallowedKey \notin DOMAIN file.data

C16_NoDisallowedKey ==
    /\ DisallowedKey \notin DOMAIN team_context
    /\ tc_file_by = "agent" => Clean(tc_file)
    /\ Clean(load_team_context(TcState, TRUE).file)
    /\ \A patch \in Patches :
          LET after == update_team_context(TcState, patch, TRUE)
          IN  Clean(after.file) /\ DisallowedKey \notin DOMAIN after.tc

C16_Witness ==
    /\ tc_file_by = "agent"
    /\ tc_file = JsonDict(("team_goal" :> "<5>"))
    /\ team_context = ("team_goal" :> "<5>")
    /\ ~team_ctx_model.set

\* C17: when update_team_context returns (its write succeeding), the Team
\* Context file holds exactly the Team Context in memory.
C17_UpdatePersistsMemory ==
    [][ \A patch \in Patches :
          SetTcState(update_team_context(TcState, patch, TRUE)) =>
              tc_file' = JsonDict(team_context') ]_vars

(***************************************************************************)
(* Properties of the registry and of the connection manager                *)
(***************************************************************************)
RegistryState ==
    <<name_to_callable, name_to_model, schemas, registration_order,
      local_tools, tool_prompt_config>>

\* C7: a registration under a name that is already registered (by a
\* function tool, a local tool or a remote tool) raises, and leaves the
\* registry state as it was.
C7_ReRegistrationFails ==
    [][ (n_regs' = n_regs + 1 /\ IsRegistered(reg_result'.name)) =>
          (reg_result'.raised /\ UNCHANGED RegistryState) ]_vars

\* C8: every available name has one origin and one handler (stated for the
\* names of remote origin): a discovered name is listed once among the MCP
\* tools and is the name of no function tool and of no local tool.
C8_RemoteNamesUnique ==
    /\ NoDuplicates(mcp_list_available_tools)
    /\ \A n \in SeqToSet(mcp_list_available_tools) :
          ~has(n) /\ n \notin DOMAIN local_tools

\* The servers that answered discovery
Succeeded == {s \in DOMAIN outcome : outcome[s] = "ok"}

\* The tool lists of the successful servers among 1..n, in configuration order
RECURSIVE ToolsOfSucceeded(_)
ToolsOfSucceeded(n) ==
    IF n = 0 THEN <<>>
    ELSE ToolsOfSucceeded(n - 1) \o (IF n \in Succeeded THEN ServerTools(n) ELSE <<>>)

\* C9: when connect_to_servers has returned, the MCP tool set holds the
\* tools of exactly the successful servers, each owned by the session of a
\* successful server that offers it, and server_status and the returned
\* map mark each configured server True exactly when it succeeded.
C9_ExactlySuccessfulServers ==
    (conn_pc = "done" /\ DOMAIN outcome = Servers) =>
        /\ available_tools = ToolsOfSucceeded(MaxServers)
        /\ DOMAIN tool_to_session = SeqToSet(ToolsOfSucceeded(MaxServers))
        /\ \A n \in DOMAIN tool_to_session :
              /\ tool_to_session[n] \in Succeeded
              /\ n \in SeqToSet(ServerTools(tool_to_session[n]))
        /\ DOMAIN server_status = Servers
        /\ DOMAIN results = Servers
        /\ \A s \in Servers :
              /\ server_status[s] = (s \in Succeeded)
              /\ results[s] = (s \in Succeeded)

C9_Witness ==
    /\ conn_pc = "done"
    /\ DOMAIN outcome = Servers
    /\ outcome[1] = "fail_list_tools"
    /\ outcome[2] = "ok"
    /\ available_tools = ServerTools(2)

\* C40: when connect_to_servers has returned, every session the manager
\* holds belongs to a server whose status is True, and every server whose
\* status is True has exactly one session: active_sessions is the number
\* of successful servers.
C40_SessionsMatchStatus ==
    conn_pc = "done" =>
        /\ \A i \in 1..Len(sessions) :
              sessions[i] \in DOMAIN server_status /\ server_status[sessions[i]]
        /\ \A s \in DOMAIN server_status :
              server_status[s] => Cardinality({i \in 1..Len(sessions) : sessions[i] = s}) = 1
        /\ Len(sessions) = Cardinality({s \in DOMAIN server_status : server_status[s]})

\* C10: a server that never completes its handshake does not block the
\* others: once connect_to_servers runs, every configured server other than
\* a hanging one reaches a status in server_status.
C10_OtherServersReachStatus ==
    (conn_pc = "awaiting") ~>
        (\A s \in Servers :
            \/ s \in DOMAIN outcome /\ outcome[s] = "hang"
            \/ s \in DOMAIN server_status)

====
